---- MODULE Spec2Model ----
(***************************************************************************)
(* Robin-Hood hash table of src/table.c: open addressing, double hashing,  *)
(* tombstones, average-probe search and growth by rehashing.               *)
(*                                                                         *)
(* Keys are C strings, modelled as sequences of byte values (no NUL); the  *)
(* table is the one table_new(NULL, NULL) builds, so the hash is           *)
(* table_hash (djb2) and the comparison is table_cmp (strncmp).            *)
(* A struct table is a record; table_insert, table_remove, table_get,      *)
(* grow_table and internal_search are operators from a struct to the       *)
(* struct (and return value) the C function leaves behind.                 *)
(***************************************************************************)
EXTENDS Integers, Sequences, FiniteSets, TLC

(* ------------------------------------------------------------------ *)
(* Program constants                                                  *)
(* ------------------------------------------------------------------ *)

TABLE_SIZE_DEFAULT == 547

\* TABLE_MAX_LOAD_FACTOR 0.95 as the fraction LOAD_NUM / LOAD_DEN
LOAD_NUM == 19

LOAD_DEN == 20

\* float scalar = 2.5 as the fraction SCALAR_NUM / SCALAR_DEN
SCALAR_NUM == 5

SCALAR_DEN == 2

\* unsigned long hash = 5381
HASH_SEED == 5381

\* the null pointer of a key field: a byte string no key is (keys hold no NUL)
NULL == <<0>>

\* the null pointer of a data field; data references are 1, 2, ...
NODATA == 0

MAX(a, b) == IF a > b THEN a ELSE b

(* ------------------------------------------------------------------ *)
(* Hash and comparison strategies (the defaults)                      *)
(* ------------------------------------------------------------------ *)

\* hash = ((hash << 5) + hash) + key[c] for c = 0 .. len-1.
\* unsigned long is 64 bits wide: keys of at most 3 bytes stay below 2^28,
\* so nothing wraps.
RECURSIVE djb2(_, _, _)
djb2(key, len, c) ==
    IF c = 0 THEN HASH_SEED
    ELSE 33 * djb2(key, len, c - 1) + key[c]

table_hash(k, len) == djb2(k, len, len)

\* The byte at 1-based index i of the C string k: its NUL terminator after
\* the last byte.
CharAt(k, i) == IF i <= Len(k) THEN k[i] ELSE 0

\* strncmp(k1, k2, len): 0 when the strings agree on their first len bytes
\* or up to and including a common NUL; non-zero otherwise.
RECURSIVE strncmp_from(_, _, _, _)
strncmp_from(k1, k2, len, i) ==
    IF i > len THEN 0
    ELSE IF CharAt(k1, i) # CharAt(k2, i) THEN CharAt(k1, i) - CharAt(k2, i)
    ELSE IF CharAt(k1, i) = 0 THEN 0
    ELSE strncmp_from(k1, k2, len, i + 1)

strncmp(k1, k2, len) == strncmp_from(k1, k2, len, 1)

table_cmp(k1, k2, len) == strncmp(k1, k2, len)

(* ------------------------------------------------------------------ *)
(* Sizing                                                             *)
(* ------------------------------------------------------------------ *)

RECURSIVE is_prime_loop(_, _)
is_prime_loop(n, i) ==
    IF i * i < n
    THEN IF (n % i) = 0 \/ (n % (i + 2)) = 0 THEN 0
         ELSE is_prime_loop(n, i + 6)
    ELSE 1

is_prime(n) ==
    IF n <= 1 THEN 0
    ELSE IF n <= 3 THEN 1
    ELSE IF (n % 2) = 0 \/ (n % 3) = 0 THEN 0
    ELSE is_prime_loop(n, 5)

RECURSIVE walk_up(_)
walk_up(n) == IF is_prime(n) = 0 THEN walk_up(n + 1) ELSE n

RECURSIVE walk_down(_)
walk_down(n) == IF is_prime(n) = 0 THEN walk_down(n - 1) ELSE n

\* size_t new_size = cur_size * scalar: the float product is exact below
\* 2^24 and the conversion to size_t truncates it.
next_prime_size(cur_size) == walk_up((cur_size * SCALAR_NUM) \div SCALAR_DEN)

\* next_prime_step without the walk down to a prime
next_prime_step_plain(cur_size) == cur_size - 1

next_prime_step(cur_size) == walk_down(cur_size - 1)

(* ------------------------------------------------------------------ *)
(* Slots and the table struct                                         *)
(* ------------------------------------------------------------------ *)

\* a slot of calloc'ed memory
ZeroEntry ==
    [hash |-> 0, key |-> NULL, data |-> NODATA, keylen |-> 0,
     probepos |-> 0, alive |-> 0]

\* calloc(n, sizeof(struct entry)) that succeeds: n zeroed slots
calloc(n) == [i \in 0 .. n - 1 |-> ZeroEntry]

\* the value calloc returns when it cannot allocate: no slot array
NOMEM == << >>

\* table_new with the capacity as a parameter
table_new_sized(size) ==
    [table |-> calloc(size),
     size |-> size,
     totalweight |-> 0,
     elements |-> 0,
     maxprobe |-> 0,
     step_prime |-> next_prime_step(size)]

table_new == table_new_sized(TABLE_SIZE_DEFAULT)

\* step = ta->step_prime - (hash % ta->step_prime)
StepOf(t, hash) == t.step_prime - (hash % t.step_prime)

\* SlotOf with the probe position left out of the product
SlotOf_noprobe(t, hash, probepos, step) == (hash + step) % t.size

\* (hash + probepos * step) % ta->size
SlotOf(t, hash, probepos, step) == (hash + probepos * step) % t.size

(* ------------------------------------------------------------------ *)
(* internal_search                                                    *)
(* ------------------------------------------------------------------ *)

\* One round of the for(;;) loop: the upward probe, then the downward one.
\* Returns the slot of the first match, or -1.
RECURSIVE search_loop(_, _, _, _, _, _, _, _, _)
search_loop(t, key, keylen, hash, step, start, walk, topdone, botdone) ==
    LET up      == ~topdone /\ (start + walk) <= t.maxprobe
        upos    == SlotOf(t, hash, start + walk, step)
        ue      == t.table[upos]
        upfound == up /\ ue.key # NULL /\ ue.alive # 0
                      /\ table_cmp(key, ue.key, keylen) = 0
        topdone1 == IF up THEN (ue.key = NULL) ELSE TRUE
        down    == ~botdone /\ (start - walk) >= 1
        dpos    == SlotOf(t, hash, start - walk, step)
        de      == t.table[dpos]
        downfound == down /\ de.alive # 0 /\ table_cmp(key, de.key, keylen) = 0
        botdone1 == IF down THEN botdone ELSE TRUE
    IN  IF upfound THEN upos
        ELSE IF downfound THEN dpos
        ELSE IF topdone1 /\ botdone1 THEN -1
        ELSE search_loop(t, key, keylen, hash, step, start, walk + 1,
                         topdone1, botdone1)

internal_search(t, key, keylen) ==
    LET hash == table_hash(key, keylen)
        step == StepOf(t, hash)
    IN  IF t.elements = 0 THEN -1
        ELSE search_loop(t, key, keylen, hash, step,
                         t.totalweight \div t.elements, 0, FALSE, FALSE)

(* ------------------------------------------------------------------ *)
(* table_insert and grow_table                                        *)
(* ------------------------------------------------------------------ *)

\* OverLoad on the load factor the insert would leave behind
OverLoad_after(t) == (t.elements + 1) * LOAD_DEN > t.size * LOAD_NUM

\* OverLoad with the casts to float forgotten: the quotient of the integers
OverLoad_intdiv(t) == (t.elements \div t.size) * LOAD_DEN > LOAD_NUM

\* (float)ta->elements / (float)ta->size > TABLE_MAX_LOAD_FACTOR.
\* size is odd (is_prime rejects even numbers), so elements/size is never 0.95
\* and lies at least 1/(20*size) away from it: the float quotient compares as
\* the exact one.
OverLoad(t) == t.elements * LOAD_DEN > t.size * LOAD_NUM

\* ta->table[pos] = e
Store(t, pos, e) == [t EXCEPT !.table[pos] = e]

\* The for(;;) loop of table_insert from candidate record r and its step;
\* [ret, t]: the return value and the struct left behind.
RECURSIVE insert_loop(_, _, _)
insert_loop(t0, r0, step) ==
    LET r   == [r0 EXCEPT !.probepos = @ + 1]
        t   == [t0 EXCEPT !.totalweight = @ + 1]
        idx == SlotOf(t, r.hash, r.probepos, step)
        e   == t.table[idx]
        pos == internal_search(t, r.key, r.keylen)
    IN  IF e.alive = 0
        THEN IF e.key # NULL /\ pos # -1
             THEN \* recycled slot, key alive elsewhere
                  [ret |-> 0,
                   t |-> [Store(t, idx, r) EXCEPT
                            !.table[pos].alive = 0,
                            !.totalweight = @ - t.table[pos].probepos]]
             ELSE [ret |-> 0,
                   t |-> [Store(t, idx, r) EXCEPT
                            !.elements = @ + 1,
                            !.maxprobe = MAX(r.probepos, @)]]
        ELSE IF e.probepos < r.probepos
                \/ (e.probepos = r.probepos /\ r.hash < e.hash)
             THEN insert_loop([Store(t, idx, r) EXCEPT
                                 !.maxprobe = MAX(r.probepos, @)],
                              e, StepOf(t, e.hash))
             ELSE IF e.probepos = r.probepos /\ r.hash = e.hash
                     /\ strncmp(r.key, e.key, r.keylen) = 0
                  THEN [ret |-> 0,
                        t |-> [t EXCEPT
                                 !.table[idx].data = r.data,
                                 !.totalweight = @ - r.probepos]]
                  ELSE insert_loop(t, r, step)

RECURSIVE table_insert(_, _, _, _, _)
RECURSIVE grow_loop(_, _, _, _, _)

\* for(; i < old_size; i++) if(old_table[i].alive) table_insert(...)
\* The slots i .. old_size-1 in increasing order, as the first half of the
\* range and then the second (the nesting of the evaluation stays shallow).
grow_loop(t, old_table, i, old_size, alloc) ==
    IF i >= old_size THEN t
    ELSE IF i + 1 = old_size
    THEN IF old_table[i].alive # 0
         THEN table_insert(t, old_table[i].key, old_table[i].keylen,
                           old_table[i].data, alloc).t
         ELSE t
    ELSE LET mid  == (i + old_size) \div 2
             left == grow_loop(t, old_table, i, mid, alloc)
         IN  \* the guard holds of every table: it has the first half
             \* evaluated before the second
             CASE left.size > 0 ->
                  grow_loop(left, old_table, mid, old_size, alloc)

\* grow_table with the counters reset before the result of calloc is looked at
grow_table_resets(t, alloc) ==
    LET old_table == t.table
        old_size  == t.size
        new_size  == next_prime_size(t.size)
        t1 == [t EXCEPT !.table = IF alloc THEN calloc(new_size) ELSE NOMEM,
                        !.elements = 0,
                        !.maxprobe = 0,
                        !.totalweight = 0]
    IN  IF t1.table = NOMEM
        THEN [ret |-> -1, t |-> [t1 EXCEPT !.table = old_table]]
        ELSE [ret |-> 0,
              t |-> grow_loop([t1 EXCEPT
                                 !.size = new_size,
                                 !.step_prime = next_prime_step(new_size)],
                              old_table, 0, old_size, alloc)]

\* alloc: whether this call's calloc succeeds. [ret, t].
grow_table(t, alloc) ==
    LET old_table == t.table
        old_size  == t.size
        new_size  == next_prime_size(t.size)
        t1 == [t EXCEPT !.table = IF alloc THEN calloc(new_size) ELSE NOMEM]
    IN  IF t1.table = NOMEM
        THEN [ret |-> -1, t |-> [t1 EXCEPT !.table = old_table]]
        ELSE [ret |-> 0,
              t |-> grow_loop([t1 EXCEPT
                                 !.size = new_size,
                                 !.step_prime = next_prime_step(new_size),
                                 !.elements = 0,
                                 !.maxprobe = 0,
                                 !.totalweight = 0],
                              old_table, 0, old_size, alloc)]

\* table_insert that reports the table full where it should grow it
table_insert_nogrow(t, key, keylen, data, alloc) ==
    LET r == [hash |-> table_hash(key, keylen), key |-> key, data |-> data,
              keylen |-> keylen, probepos |-> 0, alive |-> 1]
        res == insert_loop(t, r, StepOf(t, r.hash))
    IN  IF t.elements = t.size \/ OverLoad(t)
        THEN [ret |-> -1, t |-> t, grow |-> "none"]
        ELSE [ret |-> res.ret, t |-> res.t, grow |-> "none"]

\* alloc: whether a calloc made by this call succeeds.
\* [ret, t, grow]: grow is what its grow_table call returned, "none" when it
\* made none.
table_insert(t, key, keylen, data, alloc) ==
    LET r == [hash |-> table_hash(key, keylen), key |-> key, data |-> data,
              keylen |-> keylen, probepos |-> 0, alive |-> 1]
        step == StepOf(t, r.hash)
        g    == grow_table(t, alloc)
        res  == insert_loop(IF OverLoad(t) THEN g.t ELSE t, r, step)
    IN  IF t.elements = t.size
        THEN [ret |-> -1, t |-> t, grow |-> "none"]
        ELSE [ret |-> res.ret, t |-> res.t,
              grow |-> IF ~OverLoad(t) THEN "none"
                       ELSE IF g.ret = 0 THEN "ok" ELSE "failed"]

\* One iteration of the for(;;) loop of table_insert on s = [done, t, r,
\* step]: the struct, the candidate record and its step, and whether the loop
\* has reached a return or the break. The branches are those of insert_loop.
insert_iter(s) ==
    LET r   == [s.r EXCEPT !.probepos = @ + 1]
        t   == [s.t EXCEPT !.totalweight = @ + 1]
        idx == SlotOf(t, r.hash, r.probepos, s.step)
        e   == t.table[idx]
    IN  IF s.done THEN s
        ELSE IF e.alive = 0
        THEN \* the search on a tombstone returns, then the loop is left
             [s EXCEPT !.done = (e.key = NULL
                                 \/ internal_search(t, r.key, r.keylen) >= -1)]
        ELSE IF e.probepos < r.probepos
                \/ (e.probepos = r.probepos /\ r.hash < e.hash)
             THEN [done |-> FALSE,
                   t |-> [Store(t, idx, r) EXCEPT
                            !.maxprobe = MAX(r.probepos, @)],
                   r |-> e,
                   step |-> StepOf(t, e.hash)]
             ELSE IF e.probepos = r.probepos /\ r.hash = e.hash
                     /\ strncmp(r.key, e.key, r.keylen) = 0
                  THEN [s EXCEPT !.done = TRUE]
                  ELSE [done |-> FALSE, t |-> t, r |-> r, step |-> s.step]

\* k iterations from s, as the first half of them and then the second (the
\* nesting of the evaluation stays shallow)
RECURSIVE insert_iters(_, _)
insert_iters(s, k) ==
    IF k <= 0 \/ s.done THEN s
    ELSE IF k = 1 THEN insert_iter(s)
    ELSE LET half == insert_iters(s, k \div 2)
         IN  \* the guard holds of every s: it has the first half evaluated
             \* before the second
             CASE half.done \in BOOLEAN ->
                  insert_iters(half, k - (k \div 2))

\* Whether the loop, from candidate record r0 and its step, reaches a return
\* or the break within `left` iterations.
insert_returns(t0, r0, step, left) ==
    insert_iters([done |-> FALSE, t |-> t0, r |-> r0, step |-> step],
                 left).done

\* Whether table_insert returns with its loop making `left` iterations at
\* most.
table_insert_returns(t, key, keylen, data, alloc, left) ==
    LET r == [hash |-> table_hash(key, keylen), key |-> key, data |-> data,
              keylen |-> keylen, probepos |-> 0, alive |-> 1]
        step == StepOf(t, r.hash)
        g    == grow_table(t, alloc)
    IN  IF t.elements = t.size THEN TRUE
        ELSE insert_returns(IF OverLoad(t) THEN g.t ELSE t, r, step, left)

(* ------------------------------------------------------------------ *)
(* table_get and table_remove                                         *)
(* ------------------------------------------------------------------ *)

\* table_get that takes every slot index the search returns as a hit
table_get_from0(t, key, keylen) ==
    LET pos == internal_search(t, key, keylen)
    IN  IF pos # -1
        THEN [ret |-> 0, data |-> t.table[pos].data]
        ELSE [ret |-> -1, data |-> NODATA]

\* [ret, data]: the return value and *data_ptr
table_get(t, key, keylen) ==
    LET pos == internal_search(t, key, keylen)
    IN  IF pos > 0
        THEN [ret |-> 0, data |-> t.table[pos].data]
        ELSE [ret |-> -1, data |-> NODATA]

\* table_remove that forgets to count the entry out
table_remove_keeps_count(t, key, keylen) ==
    LET pos == internal_search(t, key, keylen)
    IN  IF pos > 0
        THEN [ret |-> 0,
              t |-> [t EXCEPT
                       !.table[pos].alive = 0,
                       !.totalweight = @ - t.table[pos].probepos]]
        ELSE [ret |-> -1, t |-> t]

\* table_remove that forgets the weight of the slot it frees
table_remove_keeps_weight(t, key, keylen) ==
    LET pos == internal_search(t, key, keylen)
    IN  IF pos > 0
        THEN [ret |-> 0,
              t |-> [t EXCEPT
                       !.table[pos].alive = 0,
                       !.elements = @ - 1]]
        ELSE [ret |-> -1, t |-> t]

\* [ret, t]
table_remove(t, key, keylen) ==
    LET pos == internal_search(t, key, keylen)
    IN  IF pos > 0
        THEN [ret |-> 0,
              t |-> [t EXCEPT
                       !.table[pos].alive = 0,
                       !.elements = @ - 1,
                       !.totalweight = @ - t.table[pos].probepos]]
        ELSE [ret |-> -1, t |-> t]

(* ------------------------------------------------------------------ *)
(* Callers                                                            *)
(* ------------------------------------------------------------------ *)

\* data references handed to table_insert: 1 .. MaxData
MaxData == 2

Data == 1 .. MaxData

\* the keys of the churn workload: "a", "b", "c". Their hashes lie in one
\* block of step_prime, so all three have slot 214 as their first probe.
Keys == {<<97>>, <<98>>, <<99>>}

\* the bulk workload inserts the decimal strings "0", "1", ... in order,
\* NBulk of them at most
NBulk == 521

\* the mixed workload: once ChurnFrom bulk keys are in, calls on the key "10"
\* come between the bulk inserts
ChurnFrom == 519

HotKeys == {<<49, 48>>}

\* callocs that fail in one run, at most
MaxFail == 1

RECURSIVE Dec(_)
Dec(i) == IF i < 10 THEN <<48 + i>> ELSE Append(Dec(i \div 10), 48 + (i % 10))

BulkKey(i) == Dec(i)

BulkData(i) == 1 + (i % MaxData)

VARIABLES
    ta,      \* the struct table
    big,     \* a second table, created at the capacity the first growth of ta
             \* leads to, that the bulk load fills with the same calls
    shadow,  \* key -> data of the calls that returned success (the map the
             \* caller was told it has)
    last,    \* the last call: its name, key, return value, *data_ptr, and
             \* what its grow_table returned ("none" when it was not called)
    fails,   \* callocs that have failed
    n,       \* bulk keys inserted so far
    calc     \* the last call of a sizing function on its own: its name,
             \* argument and return value

vars == <<ta, big, shadow, last, fails, n, calc>>

Init ==
    /\ ta = table_new
    /\ big = table_new_sized(next_prime_size(TABLE_SIZE_DEFAULT))
    /\ shadow = << >>
    /\ last = [op |-> "new", key |-> NULL, ret |-> 0, data |-> NODATA,
               grow |-> "none"]
    /\ fails = 0
    /\ n = 0
    /\ calc = [fn |-> "none", arg |-> 0, ret |-> 0]

Put(f, k, d) == [x \in DOMAIN f \cup {k} |-> IF x = k THEN d ELSE f[x]]

Drop(f, k) == [x \in DOMAIN f \ {k} |-> f[x]]

\* table_insert(t, k, strlen(k), d); alloc is the outcome of its calloc
Call_insert(k, d, alloc) ==
    LET res == table_insert(ta, k, Len(k), d, alloc)
    IN  /\ ta' = res.t
        /\ shadow' = IF res.ret = 0 THEN Put(shadow, k, d) ELSE shadow
        /\ last' = [op |-> "insert", key |-> k, ret |-> res.ret,
                    data |-> NODATA, grow |-> res.grow]
        /\ fails' = IF res.grow = "failed" THEN fails + 1 ELSE fails
        /\ UNCHANGED calc

Call_remove(k) ==
    LET res == table_remove(ta, k, Len(k))
    IN  /\ ta' = res.t
        /\ shadow' = IF res.ret = 0 THEN Drop(shadow, k) ELSE shadow
        /\ last' = [op |-> "remove", key |-> k, ret |-> res.ret,
                    data |-> NODATA, grow |-> "none"]
        /\ UNCHANGED <<fails, calc>>

Call_get(k) ==
    LET res == table_get(ta, k, Len(k))
    IN  /\ last' = [op |-> "get", key |-> k, ret |-> res.ret,
                    data |-> res.data, grow |-> "none"]
        /\ UNCHANGED <<ta, shadow, fails, calc>>

\* the outcomes a calloc can have
Allocs == IF fails < MaxFail THEN BOOLEAN ELSE {TRUE}

(* Churn: any calls on a handful of keys that collide. *)

Insert(k, d) ==
    /\ \E alloc \in Allocs : Call_insert(k, d, alloc)
    /\ UNCHANGED <<big, n>>

Remove(k) == Call_remove(k) /\ UNCHANGED <<big, n>>

Get(k) == Call_get(k) /\ UNCHANGED <<big, n>>

Next ==
    \/ \E k \in Keys, d \in Data : Insert(k, d)
    \/ \E k \in Keys : Remove(k)
    \/ \E k \in Keys : Get(k)

Spec == Init /\ [][Next]_vars

(* Load: distinct keys, in order, through growth; no calloc fails. The     *)
(* same calls go to big, which never has to grow.                          *)

Load ==
    /\ n < NBulk
    /\ Call_insert(BulkKey(n), BulkData(n), TRUE)
    /\ big' = table_insert(big, BulkKey(n), Len(BulkKey(n)), BulkData(n),
                           TRUE).t
    /\ n' = n + 1

NextLoad == Load

SpecLoad == Init /\ [][NextLoad]_vars

(* Bulk: the load with callocs that may fail, and once ChurnFrom keys are  *)
(* in, inserts, removes and lookups of the hot keys in between.            *)

BulkInsert ==
    /\ n < NBulk
    /\ \E alloc \in Allocs : Call_insert(BulkKey(n), BulkData(n), alloc)
    /\ n' = n + 1
    /\ UNCHANGED big

HotInsert(k, d) == n >= ChurnFrom /\ Insert(k, d)

HotRemove(k) == n >= ChurnFrom /\ Remove(k)

HotGet(k) == n >= ChurnFrom /\ Get(k)

NextBulk ==
    \/ BulkInsert
    \/ \E k \in HotKeys, d \in Data : HotInsert(k, d)
    \/ \E k \in HotKeys : HotRemove(k)
    \/ \E k \in HotKeys : HotGet(k)

SpecBulk == Init /\ [][NextBulk]_vars

(* Sizing: one call of a sizing function on its own, on any argument up to *)
(* MaxN.                                                                    *)

MaxN == 600

Call_is_prime(m) ==
    /\ calc.fn = "none"
    /\ calc' = [fn |-> "is_prime", arg |-> m, ret |-> is_prime(m)]
    /\ UNCHANGED <<ta, big, shadow, last, fails, n>>

\* the while loop of next_prime_size from new_size = m
Call_walk_up(m) ==
    /\ calc.fn = "none"
    /\ calc' = [fn |-> "walk_up", arg |-> m, ret |-> walk_up(m)]
    /\ UNCHANGED <<ta, big, shadow, last, fails, n>>

Call_next_prime_step(m) ==
    /\ calc.fn = "none"
    /\ m >= 3
    /\ calc' = [fn |-> "next_prime_step", arg |-> m,
                ret |-> next_prime_step(m)]
    /\ UNCHANGED <<ta, big, shadow, last, fails, n>>

NextSizing ==
    \/ \E m \in 2 .. MaxN : Call_is_prime(m)
    \/ \E m \in 2 .. MaxN : Call_walk_up(m)
    \/ \E m \in 2 .. MaxN : Call_next_prime_step(m)

SpecSizing == Init /\ [][NextSizing]_vars

(* ------------------------------------------------------------------ *)
(* What the properties read                                           *)
(* ------------------------------------------------------------------ *)

\* the indices of the slots whose alive flag is set
LiveSlots(t) == {i \in DOMAIN t.table : t.table[i].alive # 0}

\* the live slots that hold key k
SlotsOf(t, k) == {i \in LiveSlots(t) : t.table[i].key = k}

IsLive(t, k) == SlotsOf(t, k) # {}

\* the sum of probepos over the live slots among lo .. hi-1
RECURSIVE LiveWeight(_, _, _)
LiveWeight(t, lo, hi) ==
    IF hi <= lo THEN 0
    ELSE IF hi = lo + 1
    THEN IF t.table[lo].alive # 0 THEN t.table[lo].probepos ELSE 0
    ELSE LiveWeight(t, lo, (lo + hi) \div 2)
         + LiveWeight(t, (lo + hi) \div 2, hi)

\* Along the probe sequence of hash and step from probe index j on: slot i
\* comes before any never-used slot does. (The sequence visits every slot,
\* size being prime and step not a multiple of it.)
RECURSIVE BeforeNeverUsed(_, _, _, _, _)
BeforeNeverUsed(t, hash, step, i, j) ==
    IF SlotOf(t, hash, j, step) = i THEN TRUE
    ELSE IF t.table[SlotOf(t, hash, j, step)].key = NULL THEN FALSE
    ELSE BeforeNeverUsed(t, hash, step, i, j + 1)

\* the iterations the loop of one table_insert is given
MaxIter == 256

\* the table_insert calls the callers of SpecBulk can make next: key, data
BulkCalls ==
    {<<BulkKey(n), BulkData(n)>> : x \in {m \in {n} : m < NBulk}}
      \cup {<<k, d>> : k \in {h \in HotKeys : n >= ChurnFrom}, d \in Data}

\* m is a prime number
IsPrime(m) == m >= 2 /\ \A d \in 2 .. m - 1 : d * d > m \/ m % d # 0

\* the smallest prime >= m
RECURSIVE PrimeAtLeast(_)
PrimeAtLeast(m) == IF IsPrime(m) THEN m ELSE PrimeAtLeast(m + 1)

\* the largest prime < m, for m >= 3
RECURSIVE PrimeBelow(_)
PrimeBelow(m) == IF IsPrime(m - 1) THEN m - 1 ELSE PrimeBelow(m - 1)

Found(d) == [ret |-> 0, data |-> d]

NotFound == [ret |-> -1, data |-> NODATA]

(* ------------------------------------------------------------------ *)
(* Properties                                                         *)
(* ------------------------------------------------------------------ *)

\* C1 (SpecLoad: distinct keys, no remove, no failed calloc): table_get on
\* every key inserted so far returns success with the data of that key's
\* insert.
C1_RoundTrip ==
    \A k \in DOMAIN shadow : table_get(ta, k, Len(k)) = Found(shadow[k])

\* C2 (Spec): a table_insert of a key that is live leaves elements as it was,
\* and table_get then yields the data just given. (Of "in place" this keeps
\* only that no entry is added.)
C2_Upsert ==
    [][(last'.op = "insert" /\ IsLive(ta, last'.key))
         => /\ ta'.elements = ta.elements
            /\ table_get(ta', last'.key, Len(last'.key))
                 = Found(shadow'[last'.key])]_vars

\* C3 (Spec): when table_remove(K) has returned success, table_get(K) returns
\* not-found, and table_get on every other live key returns what it returned
\* before the call.
C3_RemoveThenLookup ==
    [][(last'.op = "remove" /\ last'.ret = 0)
         => /\ table_get(ta', last'.key, Len(last'.key)) = NotFound
            /\ \A k \in Keys \ {last'.key} :
                 IsLive(ta, k) =>
                   /\ table_get(ta, k, Len(k)).ret = 0
                   /\ table_get(ta', k, Len(k)) = table_get(ta, k, Len(k))]_vars

\* C4 (Spec): no two live slots hold the same key.
C4_KeyUnique ==
    \A i, j \in LiveSlots(ta) :
        i # j => ta.table[i].key # ta.table[j].key

\* C5 (SpecLoad): every live entry sits at slot (hash + probepos * step) mod
\* size, step being derived from its own hash and the current step_prime.
C5_Placement ==
    \A i \in LiveSlots(ta) :
        i = SlotOf(ta, ta.table[i].hash, ta.table[i].probepos,
                   StepOf(ta, ta.table[i].hash))

\* C6 (SpecBulk): totalweight is the sum of probepos over the live slots.
C6_WeightAccounting == ta.totalweight = LiveWeight(ta, 0, ta.size)

\* a removal from the grown table, some entry of which sits past its first
\* probe
C6_Witness ==
    /\ ta.size # TABLE_SIZE_DEFAULT
    /\ last.op = "remove" /\ last.ret = 0
    /\ ta.totalweight > ta.elements

\* C7 (SpecLoad): once ta has grown to the capacity big was created with,
\* table_get gives the same result on both for every key inserted.
C7_GrowthEquivalence ==
    ta.size = big.size =>
        \A i \in 0 .. n - 1 :
            table_get(ta, BulkKey(i), Len(BulkKey(i)))
              = table_get(big, BulkKey(i), Len(BulkKey(i)))

\* C8 (SpecBulk): a table_insert whose grow_table failed returns an error and
\* leaves the struct and the slots as they were.
C8_InsertPropagates ==
    [][last'.grow = "failed" => (last'.ret # 0 /\ ta' = ta)]_vars

\* C9 (SpecBulk): the grow_table call of a table_insert whose calloc failed
\* returned -1 and left the slot array, size, step_prime, elements,
\* totalweight and maxprobe as they were.
C9_GrowFailure ==
    [][last'.grow = "failed"
         => grow_table(ta, FALSE) = [ret |-> -1, t |-> ta]]_vars

\* a table_insert has just run a grow_table whose calloc failed
C9_Witness == last.op = "insert" /\ last.grow = "failed"

\* C10 (SpecBulk): while no calloc has failed, after a table_insert
\* elements/size <= 0.95 + 1/size.
C10_LoadBound ==
    (fails = 0 /\ last.op = "insert")
        => ta.elements * LOAD_DEN <= ta.size * LOAD_NUM + LOAD_DEN

\* a table_insert has left the table one entry above the threshold
C10_Witness ==
    /\ fails = 0 /\ last.op = "insert"
    /\ OverLoad(ta)
    /\ (ta.elements - 1) * LOAD_DEN <= ta.size * LOAD_NUM

\* C11 (SpecBulk): in every state of the table, at its first capacity and
\* after growth, size is prime, step_prime is prime and step_prime < size.
C11_Sizing ==
    /\ IsPrime(ta.size)
    /\ IsPrime(ta.step_prime)
    /\ ta.step_prime < ta.size

\* the table has grown and has been used since
C11_Witness ==
    /\ ta.size > TABLE_SIZE_DEFAULT
    /\ ta.step_prime > TABLE_SIZE_DEFAULT
    /\ last.op = "get"

\* C12 (SpecBulk): while no calloc has failed, elements stays below size and
\* no table_insert has returned an error.
C12_NeverFull ==
    fails = 0 =>
        /\ ta.elements < ta.size
        /\ last.op = "insert" => last.ret = 0

\* the insert that met the table over the load factor grew it and placed its
\* key
C12_Witness ==
    /\ fails = 0
    /\ last.op = "insert" /\ last.grow = "ok" /\ last.ret = 0
    /\ ta.elements < ta.size

\* C13 as stated (SpecBulk): a table_insert runs Growth exactly when
\* (elements + 1) / size, the load factor its key would bring, exceeds 0.95.
C13_TriggerAfterInsert ==
    [][last'.op = "insert"
         => (last'.grow # "none"
               <=> (ta.elements + 1) * LOAD_DEN > ta.size * LOAD_NUM)]_vars

\* C13 amended (SpecBulk): a table_insert runs Growth (the capacity changes,
\* or the calloc of Growth failed) exactly when elements / size, the load
\* factor it finds, exceeds 0.95.
C13_TriggerBeforeInsert ==
    [][last'.op = "insert"
         => ((ta'.size # ta.size \/ last'.grow = "failed")
               <=> ta.elements * LOAD_DEN > ta.size * LOAD_NUM)]_vars

\* an insert has grown the table, which it found with 520 of 547 slots live
\* or more
C13_Witness ==
    /\ last.op = "insert" /\ last.grow = "ok"
    /\ ta.size = next_prime_size(TABLE_SIZE_DEFAULT)
    /\ (ta.elements - 1) * LOAD_DEN > TABLE_SIZE_DEFAULT * LOAD_NUM

\* C14 (SpecBulk): a table_remove(K) that returns success clears the alive
\* flag of a live slot that holds K, takes 1 from elements and that slot's
\* probepos from totalweight, and changes nothing else: not the slot's key,
\* keylen, hash, probepos or data, not maxprobe, size or step_prime, not any
\* other slot.
C14_RemoveFrame ==
    [][(last'.op = "remove" /\ last'.ret = 0)
         => \E i \in SlotsOf(ta, last'.key) :
               ta' = [ta EXCEPT
                        !.table[i].alive = 0,
                        !.elements = @ - 1,
                        !.totalweight = @ - ta.table[i].probepos]]_vars

\* C15 (SpecLoad): while slot 0 holds a live entry, internal_search on its
\* key returns 0, table_get on it reports not-found and table_remove on it
\* reports not-found and leaves the table as it is.
C15_SlotZero ==
    ta.table[0].alive # 0 =>
        LET k == ta.table[0].key
        IN  /\ internal_search(ta, k, Len(k)) = 0
            /\ table_get(ta, k, Len(k)) = NotFound
            /\ table_remove(ta, k, Len(k)) = [ret |-> -1, t |-> ta]

\* an insert that returned success has left its key live in slot 0
C15_Witness ==
    /\ ta.table[0].alive # 0
    /\ ta.table[0].key \in DOMAIN shadow
    /\ ta.table[0].data = shadow[ta.table[0].key]

\* C16 (SpecLoad): for every live entry, with j the probe index at which its
\* slot lies on its key's probe sequence under the current step_prime, none
\* of the slots at probe indices 1 .. j-1 is never-used.
C16_EarlyExitSound ==
    \A i \in LiveSlots(ta) :
        BeforeNeverUsed(ta, ta.table[i].hash, StepOf(ta, ta.table[i].hash),
                        i, 1)

\* C17 (SpecBulk): after every public operation, elements is the number of
\* slots whose alive flag is set.
C17_ElementCount == ta.elements = Cardinality(LiveSlots(ta))

\* the table has been grown, an entry removed from it and an entry inserted
\* after that
C17_Witness ==
    /\ ta.size # TABLE_SIZE_DEFAULT
    /\ last.op = "insert" /\ last.grow = "none"
    /\ \E i \in DOMAIN ta.table :
          ta.table[i].key # NULL /\ ta.table[i].alive = 0

\* C18 (SpecLoad): a Growth that succeeds on capacity oldSize leaves size
\* the smallest prime >= ceil(oldSize * 2.5) and step_prime the largest
\* prime < size.
C18_GrowthCapacity ==
    [][ta'.size # ta.size
         => /\ ta'.size
                 = PrimeAtLeast((ta.size * SCALAR_NUM + SCALAR_DEN - 1)
                                  \div SCALAR_DEN)
            /\ ta'.step_prime = PrimeBelow(ta'.size)]_vars

\* C19 (SpecBulk): in every state with elements < size, each table_insert a
\* caller can make next leaves its probe and displacement loop within
\* MaxIter iterations, whatever the calloc of its Growth does.
C19_InsertTerminates ==
    ta.elements < ta.size =>
        \A c \in BulkCalls, alloc \in IF OverLoad(ta) THEN Allocs ELSE {TRUE} :
            table_insert_returns(ta, c[1], Len(c[1]), c[2], alloc, MaxIter)

\* an insert has returned on a table that holds displaced entries and a
\* tombstone, and further inserts can be made
C19_Witness ==
    /\ last.op = "insert" /\ last.ret = 0
    /\ ta.elements < ta.size
    /\ ta.maxprobe > 1
    /\ BulkCalls # {}
    /\ \E i \in DOMAIN ta.table :
          ta.table[i].key \in HotKeys /\ ta.table[i].alive = 0

\* C20 (SpecSizing): for every argument m in 2 .. MaxN, is_prime(m) is true
\* exactly when m is prime, the upward walk of next_prime_size from m ends
\* on the smallest prime >= m, and for m >= 3 next_prime_step(m) is the
\* largest prime < m.
C20_PrimeHelpers ==
    /\ calc.fn = "is_prime" => (calc.ret # 0 <=> IsPrime(calc.arg))
    /\ calc.fn = "walk_up" => calc.ret = PrimeAtLeast(calc.arg)
    /\ calc.fn = "next_prime_step" => calc.ret = PrimeBelow(calc.arg)

====
